---- MODULE Spec2Model ----
(***************************************************************************)
(* Model of fx_bot.py: the /compare handler of the FX rate comparator bot, *)
(* its three rate sources (CBR XML feed, Investing.com and ProFinance page *)
(* scrapes through Playwright), the cross-rate and arbitrage computation   *)
(* and the delivery of the report through the Telegram messages.           *)
(*                                                                         *)
(* Numbers.  Rates are Python floats in the program.  Here a rate is an    *)
(* exact fixed-point number counted in units of 1/Scale (tenths); the      *)
(* product of two rates (the cross rate) and the delta are counted in      *)
(* units of 1/(Scale*Scale) (hundredths), so no rounding happens in the    *)
(* model.  Page texts carry at most one fractional digit.                  *)
(*                                                                         *)
(* Optional values.  Python's None is the empty tuple <<>>, a value v is   *)
(* the one-element tuple <<v>>.                                            *)
(***************************************************************************)
EXTENDS Integers, Sequences, FiniteSets, TLC

\* ------------------------------------------------------------------------
\* Bounds of the model
\* ------------------------------------------------------------------------

\* Longest list of nodes a selector matches in a page (fetch specification).
MaxNodes == 2

\* Longest list of <Valute> elements in a CBR document.
MaxValutes == 2

\* Fixed-point scale: a rate r is the float r / Scale.
Scale == 10

\* ------------------------------------------------------------------------
\* Optional values and Python truthiness
\* ------------------------------------------------------------------------

None == << >>

Some(v) == << v >>

Val(x) == x[1]

\* bool(rate) for a rate that is None or a float: None and 0.0 are falsy.
Truthy(x) == x # None /\ Val(x) # 0

\* ------------------------------------------------------------------------
\* Texts: sequences of one-character strings
\* ------------------------------------------------------------------------

DigitChars == << "0", "1", "2", "3", "4", "5", "6", "7", "8", "9" >>

\* str.isdigit on one character
IsDigit(c) == \E i \in 1..Len(DigitChars) : DigitChars[i] = c

DigitVal(c) == (CHOOSE i \in 1..Len(DigitChars) : DigitChars[i] = c) - 1

\* ''.join(c for c in price_text if c.isdigit() or c in '.,')
KeepChar(c) == IsDigit(c) \/ c \in {".", ","}

CleanText(s) == SelectSeq(s, KeepChar)

\* s.replace(',', '.')
ReplaceComma(s) == [i \in 1..Len(s) |-> IF s[i] = "," THEN "." ELSE s[i]]

RECURSIVE TrimLeft(_)
TrimLeft(s) == IF s # << >> /\ Head(s) = " " THEN TrimLeft(Tail(s)) ELSE s

RECURSIVE TrimRight(_)
TrimRight(s) ==
    IF s # << >> /\ s[Len(s)] = " " THEN TrimRight(SubSeq(s, 1, Len(s) - 1)) ELSE s

\* JavaScript's String.prototype.trim
Trim(s) == TrimRight(TrimLeft(s))

\* JavaScript's /^[0-9.,]+$/.test(text)
RegexNumeric(t) == Len(t) >= 1 /\ \A i \in 1..Len(t) : KeepChar(t[i])

CountDots(s) == Cardinality({i \in 1..Len(s) : s[i] = "."})

CountDigits(s) == Cardinality({i \in 1..Len(s) : IsDigit(s[i])})

\* float(s) succeeds: only digits and at most one '.', at least one digit.
\* (The texts of the model hold no sign, exponent or inner blank.)
FloatOk(s) ==
    /\ \A i \in 1..Len(s) : IsDigit(s[i]) \/ s[i] = "."
    /\ CountDots(s) <= 1
    /\ CountDigits(s) >= 1

RECURSIVE NatOf(_)
NatOf(s) == IF s = << >> THEN 0 ELSE NatOf(SubSeq(s, 1, Len(s) - 1)) * 10 + DigitVal(s[Len(s)])

DotPos(s) == IF CountDots(s) = 0 THEN Len(s) + 1 ELSE CHOOSE i \in 1..Len(s) : s[i] = "."

\* float(s) in units of 1/Scale, for a text with at most one fractional digit
FloatVal(s) ==
    LET p == DotPos(s)
        int == SubSeq(s, 1, p - 1)
        frac == SubSeq(s, p + 1, Len(s))
    IN  NatOf(int) * Scale + (IF frac = << >> THEN 0 ELSE DigitVal(frac[1]))

\* float(price_text.replace(',', '.')): None stands for the ValueError
ParseFloat(s) == IF FloatOk(ReplaceComma(s)) THEN Some(FloatVal(ReplaceComma(s))) ELSE None

\* ------------------------------------------------------------------------
\* Inputs: what the sources can answer
\* ------------------------------------------------------------------------

\* Texts a page node can hold.
TextZero == << "0" >>

TextPadded == << "1", ".", "0", " " >>

TextComma == << "1", ",", "2" >>

TextCurrency == << "$", "1", ".", "5" >>

TextDate == << "1", ".", "2", ".", "3" >>

TextWord == << "n", "/", "a" >>

TextEmpty == << >>

PageTexts == {TextZero, TextPadded, TextComma, TextCurrency, TextDate, TextWord, TextEmpty}

\* All lists of at most n elements of S
SeqsUpTo(S, n) == UNION {[1..k -> S] : k \in 0..n}

\* Node lists of a whole compare run: a selector matches at most one node.
RunNodeLists == SeqsUpTo(PageTexts, 1)

\* Node lists of the fetch specification: a selector matches up to MaxNodes nodes.
NodeLists == SeqsUpTo(PageTexts, MaxNodes)

\* <Valute> elements of the CBR document: CharCode, Value text, Nominal.
Valutes ==
    { [CharCode |-> "USD", Value |-> TextComma, Nominal |-> 1],
      [CharCode |-> "CNY", Value |-> << "1", "0", ",", "0" >>, Nominal |-> 10],
      [CharCode |-> "CNY", Value |-> TextZero, Nominal |-> 1],
      [CharCode |-> "USD", Value |-> TextWord, Nominal |-> 1] }

CbrDocuments == SeqsUpTo(Valutes, MaxValutes)

\* ------------------------------------------------------------------------
\* get_cbr_rates
\* ------------------------------------------------------------------------

\* One <Valute> parses: float(Value.replace(',', '.')) and int(Nominal) succeed.
ValuteOk(v) == ParseFloat(v.Value) # None /\ v.Nominal # 0

\* value / nominal
ValuteRate(v) == Val(ParseFloat(v.Value)) \div v.Nominal

\* The dict built by the loop over tree.findall('Valute'), a function from
\* the codes of the document to rates: a later element of the same code
\* overwrites an earlier one.
ResultDict(doc) ==
    [code \in {doc[i].CharCode : i \in 1..Len(doc)} |->
        LET idx == {i \in 1..Len(doc) : doc[i].CharCode = code}
        IN  ValuteRate(doc[CHOOSE i \in idx : \A j \in idx : j <= i])]

\* Every element of the document parses (else the except branch is taken).
CbrParses(doc) == \A i \in 1..Len(doc) : ValuteOk(doc[i])

\* dict.get(code)
DictGet(dict, code) == IF code \in DOMAIN dict THEN Some(dict[code]) ELSE None

\* A lookup that gives up on the whole document when a code is missing.
CbrGetNeedsBothCodes(cbr, code) ==
    IF cbr # None /\ {"USD", "CNY"} \subseteq DOMAIN Val(cbr)
    THEN DictGet(Val(cbr), code)
    ELSE None

\* cbr.get(code) if cbr else None: None and the empty dict are falsy.
CbrGet(cbr, code) ==
    IF cbr # None /\ DOMAIN Val(cbr) # {} THEN DictGet(Val(cbr), code) ELSE None

\* ------------------------------------------------------------------------
\* Page-scrape sources
\* ------------------------------------------------------------------------

InvestingUrls == {"USD/RUB", "CNY/RUB", "USD/CNY"}

ProfinanceUrls == {"USD/RUB", "CNY/RUB"}

Urls(source) == IF source = "Investing" THEN InvestingUrls ELSE ProfinanceUrls

\* The ProFinance selector list, in order.
selectors == << "#last", ".price-large", ".price", ".last", "#last_last" >>

\* The page-scrape calls of compare, in program order.
CallSites ==
    << [source |-> "Investing",  pair |-> "USD/RUB", slot |-> "usd_rub_investing"],
       [source |-> "Investing",  pair |-> "CNY/RUB", slot |-> "cny_rub_investing"],
       [source |-> "Investing",  pair |-> "USD/CNY", slot |-> "usd_cny_investing"],
       [source |-> "Profinance", pair |-> "USD/RUB", slot |-> "usd_rub_profinance"],
       [source |-> "Profinance", pair |-> "CNY/RUB", slot |-> "cny_rub_profinance"] >>

\* Calls of the two fetch functions on their own, with pairs inside and
\* outside the urls table of the source; slot names the caller's variable
\* that receives the result.
DirectCalls ==
    << [source |-> "Investing",  pair |-> "EUR/RUB", slot |-> "usd_rub_investing"],
       [source |-> "Profinance", pair |-> "USD/CNY", slot |-> "usd_rub_profinance"],
       [source |-> "Investing",  pair |-> "USD/CNY", slot |-> "usd_cny_investing"],
       [source |-> "Profinance", pair |-> "CNY/RUB", slot |-> "cny_rub_profinance"] >>

Slots ==
    {"usd_rub_cbr", "cny_rub_cbr", "usd_rub_investing", "cny_rub_investing",
     "usd_cny_investing", "usd_rub_profinance", "cny_rub_profinance"}

\* Investing: el ? el.textContent.trim() : null, for the first matching node.
InvestingPriceText(nodes) == IF nodes = << >> THEN None ELSE Some(Trim(nodes[1]))

\* ProFinance: the first node whose trimmed text passes the regular
\* expression, else null.
ProfinancePriceText(nodes) ==
    LET idx == {i \in 1..Len(nodes) : RegexNumeric(Trim(nodes[i]))}
    IN  IF idx = {} THEN None
        ELSE Some(Trim(nodes[CHOOSE i \in idx : \A j \in idx : i <= j]))

\* if price_text: (null and the empty string are falsy)
TextTruthy(t) == t # None /\ Val(t) # << >>

\* rate = float(cleaned.replace(',', '.')); None stands for the ValueError
ParseRate(text) == ParseFloat(CleanText(text))

\* ------------------------------------------------------------------------
\* The report: format_rate, cross rate, arbitrage analysis
\* ------------------------------------------------------------------------

\* 0.3, in units of 1/Scale
Threshold == 3

NA == << "N/A" >>

\* f"{rate:.4f}" if rate else "N/A"
format_rate(rate) == IF Truthy(rate) THEN << "rate", Val(rate) >> ELSE NA

\* Mutant of CrossRate: the first leg is multiplied by itself.
CrossRateSameLeg(usd_cny, cny_rub) ==
    IF Truthy(usd_cny) /\ Truthy(cny_rub) THEN Some(Val(usd_cny) * Val(usd_cny)) ELSE None

\* usd_cny_investing * cny_rub_investing if usd_cny_investing and cny_rub_investing else None
\* (the product is counted in units of 1/(Scale*Scale))
CrossRate(usd_cny, cny_rub) ==
    IF Truthy(usd_cny) /\ Truthy(cny_rub) THEN Some(Val(usd_cny) * Val(cny_rub)) ELSE None

\* Mutant of HasVerdict: only the cross rate is tested.
HasVerdictCrossOnly(cross, direct) == Truthy(cross)

\* if usd_rub_cross and usd_rub_investing:
HasVerdict(cross, direct) == Truthy(cross) /\ Truthy(direct)

\* usd_rub_cross - usd_rub_investing raises TypeError when an operand is None
SubtractRaises(cross, direct) == cross = None \/ direct = None

\* delta = usd_rub_cross - usd_rub_investing, in units of 1/(Scale*Scale)
Delta(cross, direct) == Val(cross) - Val(direct) * Scale

Abs(x) == IF x < 0 THEN -x ELSE x

\* the arrow: up if delta > 0 else down
Emoji(delta) == IF delta > 0 THEN "up" ELSE "down"

\* Mutant of Exceeded: >= in place of >.
ExceededOrEqual(delta) == Abs(delta) >= Threshold * Scale

\* if abs(delta) > 0.3:
Exceeded(delta) == Abs(delta) > Threshold * Scale

Direct == "USD/RUB"

Cross == "USD/CNY + CNY/RUB"

\* Buy: 'USD/RUB' if delta < 0 else 'USD/CNY + CNY/RUB'
Buy(delta) == IF delta < 0 THEN Direct ELSE Cross

\* A sell side that does not look at the sign of delta.
SellAlwaysDirect(delta) == Direct

\* Sell: 'USD/CNY + CNY/RUB' if delta < 0 else 'USD/RUB'
Sell(delta) == IF delta < 0 THEN Cross ELSE Direct

\* The "Cross vs Direct" part of the response: absent (None) when the
\* condition fails; the opportunity lines only when the threshold is exceeded.
Analysis(cross, direct) ==
    IF HasVerdict(cross, direct)
    THEN LET delta == Delta(cross, direct)
         IN  Some([delta |-> delta,
                   emoji |-> Emoji(delta),
                   opportunity |-> IF Exceeded(delta)
                                   THEN Some([buy |-> Buy(delta), sell |-> Sell(delta),
                                              profit |-> Abs(delta)])
                                   ELSE None])
    ELSE None

\* Mutant of Response: the ProFinance USD/RUB line shows the Investing rate.
ResponseCopiedLine(r) ==
    LET cross == CrossRate(r["usd_cny_investing"], r["cny_rub_investing"])
    IN  [shown |-> [s \in Slots |->
                      IF s = "usd_rub_profinance" THEN format_rate(r["usd_rub_investing"])
                      ELSE format_rate(r[s])],
         cross |-> format_rate(cross),
         analysis |-> Analysis(cross, r["usd_rub_investing"])]

\* The response text of compare, as the data it shows.
Response(r) ==
    LET cross == CrossRate(r["usd_cny_investing"], r["cny_rub_investing"])
    IN  [shown |-> [s \in Slots |-> format_rate(r[s])],
         cross |-> format_rate(cross),
         analysis |-> Analysis(cross, r["usd_rub_investing"])]

\* The response cannot be built: an arithmetic step raises inside the try.
ResponseRaises(r) ==
    LET cross == CrossRate(r["usd_cny_investing"], r["cny_rub_investing"])
    IN  HasVerdict(cross, r["usd_rub_investing"]) /\ SubtractRaises(cross, r["usd_rub_investing"])

\* ------------------------------------------------------------------------
\* State
\* ------------------------------------------------------------------------

VARIABLES
    pc,              \* position of the compare handler
    site,            \* index in CallSites of the page-scrape call in progress, 0 if none
    fpc,             \* position inside get_investing_rate / get_profinance_rate
    selIdx,          \* index in selectors of the ProFinance loop, 0 outside it
    elements,        \* node texts the current selector matched (page.evaluate)
    pending,         \* how the fetch function is leaving its try blocks
    playwright,      \* the async_playwright() driver is running
    browser,         \* the browser launched last in this run: "none" (none was
                     \* launched), "open" (running) or "closed"
    cbr,             \* the local variable cbr of compare: the dict, or None
    rate,            \* the local variables of compare that hold the fetched rates
    response,        \* the response built by compare, None before
    status_message,  \* "none", "shown", "deleted" or "apology"
    delivered,       \* the report the chat received from this run, None if none
    overlapped,      \* two fetches to different sources were in flight together
    issued,          \* how often this run has called each fetch function
    query,           \* the callback query the button handler serves, None for a command
    keyboard,        \* inline keyboard of the pressed message: "none" (no
                     \* message was pressed), "shown" or "removed"
    earlier          \* an earlier run delivered a report with a rate in every line

vars ==
    << pc, site, fpc, selIdx, elements, pending, playwright, browser, cbr, rate,
       response, status_message, delivered, overlapped, issued, query, keyboard,
       earlier >>

fetchVars == << site, fpc, selIdx, elements, pending, playwright, browser >>

NoPending == [kind |-> "none", value |-> None]

Return(v) == [kind |-> "return", value |-> v]

Raise == [kind |-> "raise", value |-> None]

Cancel == [kind |-> "cancel", value |-> None]

NoRates == [s \in Slots |-> None]

\* The fetches a run makes: the CBR document and one call per call site,
\* named by the local variable that receives the result.
Fetches == {"cbr"} \cup {CallSites[i].slot : i \in 1..Len(CallSites)}

NotIssued == [f \in Fetches |-> 0]

Init ==
    /\ pc = "idle"
    /\ site = 0
    /\ fpc = "off"
    /\ selIdx = 0
    /\ elements = << >>
    /\ pending = NoPending
    /\ playwright = FALSE
    /\ browser = "none"
    /\ cbr = None
    /\ rate = NoRates
    /\ response = None
    /\ status_message = "none"
    /\ delivered = None
    /\ overlapped = FALSE
    /\ issued = NotIssued
    /\ query = None
    /\ keyboard = "none"
    /\ earlier = FALSE

\* The handler has ended: by returning, by an exception that left it, or by
\* cancellation of its task.
Ended == pc \in {"done", "apologized", "escaped", "cancelled", "returned"}

\* The run that has ended delivered a report with a rate in every line.
DeliveredAllRates == pc = "done" /\ \A s \in Slots : Truthy(rate[s])

\* No handler is running: the next update can be taken.  The application is
\* built without concurrent updates, so an update is handled only after the
\* handler of the update before it has ended.
Free == pc = "idle" \/ Ended

\* ------------------------------------------------------------------------
\* compare: from the command to the first fetch
\* ------------------------------------------------------------------------

\* What an awaited call can do: complete, raise an Exception, or raise
\* CancelledError because the handler's task was cancelled while it waited.
Outcomes == {"ok", "raise", "cancel"}

\* A compare that keeps its rates in variables that outlive the call.
compareKeepsRates ==
    /\ \/ Free /\ query' = None /\ keyboard' = "none"
       \/ pc = "compare" /\ UNCHANGED << query, keyboard >>
    /\ pc' = "reply_text"
    /\ response' = None
    /\ status_message' = "none"
    /\ delivered' = None
    /\ overlapped' = FALSE
    /\ browser' = "none"
    /\ issued' = NotIssued
    /\ earlier' = (earlier \/ DeliveredAllRates)
    /\ UNCHANGED << site, fpc, selIdx, elements, pending, playwright, cbr, rate >>

\* compare is entered with fresh locals: for a /compare update, or called
\* by button (pc "compare"), where message is the pressed message.
compare ==
    /\ \/ Free /\ query' = None /\ keyboard' = "none"
       \/ pc = "compare" /\ UNCHANGED << query, keyboard, earlier >>
    /\ pc' = "reply_text"
    /\ cbr' = None
    /\ rate' = NoRates
    /\ response' = None
    /\ status_message' = "none"
    /\ delivered' = None
    /\ overlapped' = FALSE
    /\ browser' = "none"
    /\ issued' = NotIssued
    /\ earlier' = (earlier \/ DeliveredAllRates)
    /\ UNCHANGED << site, fpc, selIdx, elements, pending, playwright >>

\* status_message = await message.reply_text(...): outside the try block
ReplyText ==
    /\ pc = "reply_text"
    /\ \E out \in Outcomes :
          /\ pc' = CASE out = "ok" -> "cbr" [] out = "raise" -> "escaped" [] OTHER -> "cancelled"
          /\ status_message' = IF out = "ok" THEN "shown" ELSE status_message
    /\ UNCHANGED << fetchVars, cbr, rate, response, delivered, overlapped,
                    issued, query, keyboard, earlier >>

\* What requests.get answers: None for a transport failure, timeout or bad
\* status, else the document.
CbrResponses == {None} \cup {Some(doc) : doc \in CbrDocuments}

\* get_cbr_rates: the dict, or None from the except branch
get_cbr_rates(resp) ==
    IF resp # None /\ CbrParses(Val(resp)) THEN Some(ResultDict(Val(resp))) ELSE None

\* cbr = await get_cbr_rates() and the two lookups.  The function holds no
\* await of its own (requests.get blocks), so it is one step.
FetchCbr ==
    /\ pc = "cbr"
    /\ \E resp \in CbrResponses : cbr' = get_cbr_rates(resp)
    /\ rate' = [rate EXCEPT !["usd_rub_cbr"] = CbrGet(cbr', "USD"),
                            !["cny_rub_cbr"] = CbrGet(cbr', "CNY")]
    /\ issued' = [issued EXCEPT !["cbr"] = @ + 1]
    /\ pc' = "fetch"
    /\ site' = 1
    /\ fpc' = "call"
    /\ UNCHANGED << selIdx, elements, pending, playwright, browser, response,
                    status_message, delivered, overlapped, query, keyboard, earlier >>

\* ------------------------------------------------------------------------
\* get_investing_rate / get_profinance_rate
\* ------------------------------------------------------------------------

Call == IF site <= Len(CallSites) THEN CallSites[site] ELSE DirectCalls[site - Len(CallSites)]

\* Sources with a fetch in flight (started, not yet returned).
InFlight == IF pc = "fetch" /\ fpc \notin {"off", "call"} THEN {Call.source} ELSE {}

\* A compare that gives up on the next call after a fetch that failed.
FinishFetchSkipsAfterFailure(v) ==
    /\ rate' = [rate EXCEPT ![Call.slot] = v]
    /\ IF site < Len(CallSites)
       THEN /\ site' = IF v = None /\ site + 1 < Len(CallSites) THEN site + 2 ELSE site + 1
            /\ fpc' = "call"
            /\ pc' = "fetch"
       ELSE IF site = Len(CallSites)
            THEN site' = 0 /\ fpc' = "off" /\ pc' = "respond"
            ELSE site' = site /\ fpc' = "off" /\ pc' = "returned"
    /\ selIdx' = 0
    /\ elements' = << >>
    /\ pending' = NoPending

\* The function returns v to compare, which stores it and goes on to the
\* next call or to the response.
FinishFetch(v) ==
    /\ rate' = [rate EXCEPT ![Call.slot] = v]
    /\ IF site < Len(CallSites)
       THEN site' = site + 1 /\ fpc' = "call" /\ pc' = "fetch"
       ELSE IF site = Len(CallSites)
            THEN site' = 0 /\ fpc' = "off" /\ pc' = "respond"
            ELSE site' = site /\ fpc' = "off" /\ pc' = "returned"
    /\ selIdx' = 0
    /\ elements' = << >>
    /\ pending' = NoPending

\* CancelledError leaves the function and, not being an Exception, compare.
CancelFetch ==
    /\ pc' = "cancelled"
    /\ site' = 0
    /\ fpc' = "off"
    /\ selIdx' = 0
    /\ elements' = << >>
    /\ pending' = NoPending
    /\ rate' = rate

\* Leave the try blocks towards fpc "close" (the finally of the inner try)
\* or "stop" (the exit of the async with) with outcome p.
Unwind(to, p) ==
    /\ fpc' = to
    /\ pending' = p
    /\ UNCHANGED << pc, site, selIdx, elements, rate >>

\* Function entry: the urls check, then async_playwright().__aenter__().
EnterFetch ==
    /\ pc = "fetch" /\ fpc = "call"
    /\ overlapped' = (overlapped \/ InFlight \ {Call.source} # {})
    /\ issued' = [issued EXCEPT ![Call.slot] = @ + 1]
    /\ IF Call.pair \notin Urls(Call.source)
       THEN FinishFetch(None) /\ UNCHANGED << playwright, browser >>
       ELSE \E out \in Outcomes :
               CASE out = "ok" ->
                       /\ playwright' = TRUE
                       /\ fpc' = "launch"
                       /\ UNCHANGED << pc, site, selIdx, elements, pending, browser, rate >>
                 [] out = "raise" -> FinishFetch(None) /\ UNCHANGED << playwright, browser >>
                 [] OTHER -> CancelFetch /\ UNCHANGED << playwright, browser >>
    /\ UNCHANGED << cbr, response, status_message, delivered, query, keyboard, earlier >>

\* browser = await p.firefox.launch(headless=True).  A cancelled launch may
\* or may not have started the browser process.
Launch ==
    /\ pc = "fetch" /\ fpc = "launch"
    /\ \E out \in Outcomes :
          CASE out = "ok" ->
                  /\ browser' = "open"
                  /\ fpc' = "new_context"
                  /\ UNCHANGED << pc, site, selIdx, elements, pending, rate >>
            [] out = "raise" -> Unwind("stop", Raise) /\ browser' = browser
            [] OTHER -> Unwind("stop", Cancel) /\ browser' \in {browser, "open"}
    /\ UNCHANGED << playwright, cbr, response, status_message, delivered, overlapped,
                    issued, query, keyboard, earlier >>

\* context = await browser.new_context(): before the inner try
NewContext ==
    /\ pc = "fetch" /\ fpc = "new_context"
    /\ \E out \in Outcomes :
          CASE out = "ok" ->
                  /\ fpc' = "new_page"
                  /\ UNCHANGED << pc, site, selIdx, elements, pending, rate >>
            [] out = "raise" -> Unwind("stop", Raise)
            [] OTHER -> Unwind("stop", Cancel)
    /\ UNCHANGED << playwright, browser, cbr, response, status_message, delivered, overlapped,
                    issued, query, keyboard, earlier >>

\* page = await context.new_page(): before the inner try
NewPage ==
    /\ pc = "fetch" /\ fpc = "new_page"
    /\ \E out \in Outcomes :
          CASE out = "ok" ->
                  /\ fpc' = "goto"
                  /\ UNCHANGED << pc, site, selIdx, elements, pending, rate >>
            [] out = "raise" -> Unwind("stop", Raise)
            [] OTHER -> Unwind("stop", Cancel)
    /\ UNCHANGED << playwright, browser, cbr, response, status_message, delivered, overlapped,
                    issued, query, keyboard, earlier >>

\* await page.goto(url, ...): first statement of the inner try
Goto ==
    /\ pc = "fetch" /\ fpc = "goto"
    /\ \E out \in Outcomes :
          CASE out = "ok" ->
                  /\ fpc' = "wait"
                  /\ selIdx' = IF Call.source = "Profinance" THEN 1 ELSE 0
                  /\ UNCHANGED << pc, site, elements, pending, rate >>
            [] out = "raise" -> Unwind("close", Return(None))
            [] OTHER -> Unwind("close", Cancel)
    /\ UNCHANGED << playwright, browser, cbr, response, status_message, delivered, overlapped,
                    issued, query, keyboard, earlier >>

\* An Exception in the body of the selector loop (ProFinance: caught per
\* selector, the loop continues; after the last selector the function
\* returns None) or in the single attempt of Investing (return None).
SelectorFailed ==
    IF Call.source = "Profinance" /\ selIdx < Len(selectors)
    THEN /\ selIdx' = selIdx + 1
         /\ fpc' = "wait"
         /\ elements' = << >>
         /\ UNCHANGED << pc, site, pending, rate >>
    ELSE /\ fpc' = "close"
         /\ pending' = Return(None)
         /\ elements' = << >>
         /\ UNCHANGED << pc, site, selIdx, rate >>

\* await page.wait_for_selector(selector, timeout=5000)
WaitForSelector ==
    /\ pc = "fetch" /\ fpc = "wait"
    /\ \E out \in Outcomes :
          CASE out = "ok" ->
                  /\ fpc' = "evaluate"
                  /\ UNCHANGED << pc, site, selIdx, elements, pending, rate >>
            [] out = "raise" -> SelectorFailed
            [] OTHER -> Unwind("close", Cancel)
    /\ UNCHANGED << playwright, browser, cbr, response, status_message, delivered, overlapped,
                    issued, query, keyboard, earlier >>

\* price_text = await page.evaluate(...): the nodes the selector matches
\* when the script runs are drawn from lists.
Evaluate(lists) ==
    /\ pc = "fetch" /\ fpc = "evaluate"
    /\ \E out \in Outcomes :
          CASE out = "ok" ->
                  /\ \E nodes \in lists : elements' = nodes
                  /\ fpc' = "process"
                  /\ UNCHANGED << pc, site, selIdx, pending, rate >>
            [] out = "raise" -> SelectorFailed
            [] OTHER -> Unwind("close", Cancel) 
    /\ UNCHANGED << playwright, browser, cbr, response, status_message, delivered, overlapped,
                    issued, query, keyboard, earlier >>

\* Investing: the rate of the first matching node; None when there is no
\* text (return None) or float raises (the inner except returns None).
InvestingRate(nodes) ==
    LET text == InvestingPriceText(nodes)
    IN  IF TextTruthy(text) THEN ParseRate(Val(text)) ELSE None

\* ProFinance, one selector: the rate of the node the script returned; None
\* when the script returned null or float raised (the loop continues).
ProfinanceRate(nodes) ==
    LET text == ProfinancePriceText(nodes)
    IN  IF TextTruthy(text) THEN ParseRate(Val(text)) ELSE None

\* The script's choice of a node and the Python code after page.evaluate up
\* to the return or the next loop iteration (no await in between).
Process ==
    /\ pc = "fetch" /\ fpc = "process"
    /\ IF Call.source = "Investing"
       THEN /\ fpc' = "close"
            /\ pending' = Return(InvestingRate(elements))
            /\ elements' = << >>
            /\ UNCHANGED << pc, site, selIdx, rate >>
       ELSE IF ProfinanceRate(elements) # None
            THEN /\ fpc' = "close"
                 /\ pending' = Return(ProfinanceRate(elements))
                 /\ elements' = << >>
                 /\ UNCHANGED << pc, site, selIdx, rate >>
            ELSE SelectorFailed
    /\ UNCHANGED << playwright, browser, cbr, response, status_message, delivered, overlapped,
                    issued, query, keyboard, earlier >>

\* finally: await browser.close().  An exception raised here replaces the
\* pending return.
CloseBrowser ==
    /\ pc = "fetch" /\ fpc = "close"
    /\ \E out \in Outcomes :
          /\ browser' = IF out = "ok" THEN "closed" ELSE browser
          /\ pending' = CASE out = "ok" -> pending [] out = "raise" -> Raise [] OTHER -> Cancel
    /\ fpc' = "stop"
    /\ UNCHANGED << pc, site, selIdx, elements, playwright, cbr, rate, response,
                    status_message, delivered, overlapped, issued, query, keyboard, earlier >>

\* Mutant of BrowserAfterStop: stopping the driver leaves its browser running.
BrowserAfterStopLeak(b) == b

\* Leaving "async with async_playwright()": the driver is stopped, and a
\* stopped driver takes down every browser it launched.
BrowserAfterStop(b) == IF b = "open" THEN "closed" ELSE b

\* __aexit__ of async_playwright(), then the way out of the function: the
\* pending return; None from the outer except for an Exception; or the
\* CancelledError goes on to the caller.
StopPlaywright ==
    /\ pc = "fetch" /\ fpc = "stop"
    /\ playwright' = FALSE
    /\ browser' = BrowserAfterStop(browser)
    /\ CASE pending.kind = "return" -> FinishFetch(pending.value)
         [] pending.kind = "raise" -> FinishFetch(None)
         [] OTHER -> CancelFetch
    /\ UNCHANGED << cbr, response, status_message, delivered, overlapped,
                    issued, query, keyboard, earlier >>

\* ------------------------------------------------------------------------
\* compare: the response and its delivery
\* ------------------------------------------------------------------------

\* Cross rate, response text and arbitrage analysis (no await).
BuildResponse ==
    /\ pc = "respond"
    /\ IF ResponseRaises(rate)
       THEN pc' = "except" /\ response' = response
       ELSE pc' = "delete" /\ response' = Some(Response(rate))
    /\ UNCHANGED << fetchVars, cbr, rate, status_message, delivered, overlapped,
                    issued, query, keyboard, earlier >>

\* await status_message.delete()
DeleteStatus ==
    /\ pc = "delete"
    /\ \E out \in Outcomes :
          /\ pc' = CASE out = "ok" -> "send" [] out = "raise" -> "except" [] OTHER -> "cancelled"
          /\ status_message' = IF out = "ok" THEN "deleted" ELSE status_message
    /\ UNCHANGED << fetchVars, cbr, rate, response, delivered, overlapped,
                    issued, query, keyboard, earlier >>

\* await message.reply_markdown(response, reply_markup=reply_markup)
ReplyMarkdown ==
    /\ pc = "send"
    /\ \E out \in Outcomes :
          /\ pc' = CASE out = "ok" -> "done" [] out = "raise" -> "except" [] OTHER -> "cancelled"
          /\ delivered' = IF out = "ok" THEN response ELSE delivered
    /\ UNCHANGED << fetchVars, cbr, rate, response, status_message, overlapped,
                    issued, query, keyboard, earlier >>

\* except Exception: await status_message.edit_text("Sorry, ...").  A deleted
\* message cannot be edited: the call raises and the exception leaves compare.
EditText ==
    /\ pc = "except"
    /\ \E out \in (IF status_message = "shown" THEN Outcomes ELSE Outcomes \ {"ok"}) :
          /\ pc' = CASE out = "ok" -> "apologized" [] out = "raise" -> "escaped"
                     [] OTHER -> "cancelled"
          /\ status_message' = IF out = "ok" THEN "apology" ELSE status_message
    /\ UNCHANGED << fetchVars, cbr, rate, response, delivered, overlapped,
                    issued, query, keyboard, earlier >>

\* ------------------------------------------------------------------------
\* button: a press of an inline button
\* ------------------------------------------------------------------------

\* Callback data of a press.  Every button this bot attaches carries
\* 'compare'; "other" stands for any other data.
CallbackData == {"compare", "other"}

\* A button that starts compare without removing the keyboard first.
AfterAnswerKeepsKeyboard(data) == IF data = "compare" THEN "compare" ELSE "returned"

\* if query.data == 'compare': where button goes after query.answer()
AfterAnswer(data) == IF data = "compare" THEN "edit_reply_markup" ELSE "returned"

\* A callback-query update arrives for a message that carries an inline
\* keyboard; the frame of the handler that ended before is gone.
button ==
    /\ Free
    /\ \E data \in CallbackData : query' = Some([data |-> data, answered |-> FALSE])
    /\ keyboard' = "shown"
    /\ pc' = "answer"
    /\ cbr' = None
    /\ rate' = NoRates
    /\ response' = None
    /\ status_message' = "none"
    /\ delivered' = None
    /\ overlapped' = FALSE
    /\ browser' = "none"
    /\ issued' = NotIssued
    /\ earlier' = (earlier \/ DeliveredAllRates)
    /\ UNCHANGED << site, fpc, selIdx, elements, pending, playwright >>

\* await query.answer()
AnswerQuery ==
    /\ pc = "answer"
    /\ \E out \in Outcomes :
          /\ pc' = CASE out = "ok" -> AfterAnswer(Val(query).data)
                     [] out = "raise" -> "escaped"
                     [] OTHER -> "cancelled"
          /\ query' = IF out = "ok" THEN Some([Val(query) EXCEPT !.answered = TRUE])
                                    ELSE query
    /\ UNCHANGED << fetchVars, cbr, rate, response, status_message, delivered, overlapped,
                    issued, keyboard, earlier >>

\* await query.message.edit_reply_markup(reply_markup=None), then the call
\* of compare
EditReplyMarkup ==
    /\ pc = "edit_reply_markup"
    /\ \E out \in Outcomes :
          /\ pc' = CASE out = "ok" -> "compare" [] out = "raise" -> "escaped"
                     [] OTHER -> "cancelled"
          /\ keyboard' = IF out = "ok" THEN "removed" ELSE keyboard
    /\ UNCHANGED << fetchVars, cbr, rate, response, status_message, delivered, overlapped,
                    issued, query, earlier >>

\* ------------------------------------------------------------------------
\* Specifications
\* ------------------------------------------------------------------------

FetchSteps(lists) ==
    \/ EnterFetch
    \/ Launch
    \/ NewContext
    \/ NewPage
    \/ Goto
    \/ WaitForSelector
    \/ Evaluate(lists)
    \/ Process
    \/ CloseBrowser
    \/ StopPlaywright

\* Updates handled one after another: /compare commands and button presses.
Next ==
    \/ button
    \/ AnswerQuery
    \/ EditReplyMarkup
    \/ compare
    \/ ReplyText
    \/ FetchCbr
    \/ FetchSteps(RunNodeLists)
    \/ BuildResponse
    \/ DeleteStatus
    \/ ReplyMarkdown
    \/ EditText

Spec == Init /\ [][Next]_vars

\* The page-scrape calls on their own, with selectors that match up to
\* MaxNodes nodes: compare stands at a call of get_investing_rate or
\* get_profinance_rate with the status message shown.
InitFetch ==
    /\ pc = "fetch"
    /\ site \in 1..Len(CallSites)
    /\ fpc = "call"
    /\ selIdx = 0
    /\ elements = << >>
    /\ pending = NoPending
    /\ playwright = FALSE
    /\ browser = "none"
    /\ cbr = None
    /\ rate = NoRates
    /\ response = None
    /\ status_message = "shown"
    /\ delivered = None
    /\ overlapped = FALSE
    /\ issued = NotIssued
    /\ query = None
    /\ keyboard = "none"
    /\ earlier = FALSE

NextFetch == FetchSteps(NodeLists)

SpecFetch == InitFetch /\ [][NextFetch]_vars

\* A fetch function called on its own with a pair of DirectCalls.
InitCall ==
    /\ pc = "fetch"
    /\ site \in {Len(CallSites) + i : i \in 1..Len(DirectCalls)}
    /\ fpc = "call"
    /\ selIdx = 0
    /\ elements = << >>
    /\ pending = NoPending
    /\ playwright = FALSE
    /\ browser = "none"
    /\ cbr = None
    /\ rate = NoRates
    /\ response = None
    /\ status_message = "none"
    /\ delivered = None
    /\ overlapped = FALSE
    /\ issued = NotIssued
    /\ query = None
    /\ keyboard = "none"
    /\ earlier = FALSE

NextCall == FetchSteps(NodeLists)

SpecCall == InitCall /\ [][NextCall]_vars

\* ------------------------------------------------------------------------
\* Properties
\* ------------------------------------------------------------------------

PageSlots == {CallSites[i].slot : i \in 1..Len(CallSites)}

\* The fetches of the run are over and compare is past building the response.
PastFetches == pc \in {"delete", "send", "done", "except", "apologized"}

\* The arbitrage analysis of the built response
Verdict == Val(response).analysis

Opportunity == Val(Verdict).opportunity

\* C1: whenever the threshold is exceeded, a positive delta recommends to buy
\* via the direct pair USD/RUB and sell via the cross legs, a negative delta
\* the reverse.
C1_BuyDirectWhenCrossOverpriced ==
    (response # None /\ Verdict # None /\ Opportunity # None) =>
        /\ Val(Verdict).delta > 0 =>
              Val(Opportunity).buy = Direct /\ Val(Opportunity).sell = Cross
        /\ Val(Verdict).delta < 0 =>
              Val(Opportunity).buy = Cross /\ Val(Opportunity).sell = Direct

\* Every source failed: the CBR document and the five page-scrape fetches.
AllSourcesFailed == cbr = None /\ \A s \in PageSlots : rate[s] = None

\* C2: a run in which all sources fail for all pairs signals a hard failure:
\* it never ends normally and never delivers a report.
C2_TotalFailureIsSignalled == AllSourcesFailed => (pc # "done" /\ delivered = None)

AnyFetchSucceeded == cbr # None \/ \E s \in PageSlots : rate[s] # None

\* C3 as claimed: with at least one fetch succeeding the response is built,
\* and a slot shows N/A exactly when its fetch failed (returned None) and
\* the fetched value exactly when its fetch succeeded.
C3_SlotIsNAExactlyWhenFetchFailed ==
    (PastFetches /\ AnyFetchSucceeded) =>
        /\ response # None
        /\ \A s \in Slots :
              /\ Val(response).shown[s] = NA <=> rate[s] = None
              /\ rate[s] # None => Val(response).shown[s] = << "rate", Val(rate[s]) >>

\* C3 (amended): with at least one fetch succeeding the response is built
\* (the failure path is entered only from a Telegram call that raised, after
\* the response was built) and it is what a run that ends normally has
\* delivered; a slot shows N/A exactly when its fetch failed or returned 0,
\* and the fetched value exactly when its fetch returned a non-zero value.
C3_SlotIsNAExactlyWhenFailedOrZero ==
    (PastFetches /\ AnyFetchSucceeded) =>
        /\ response # None
        /\ pc = "done" => delivered = response
        /\ \A s \in Slots :
              /\ Val(response).shown[s] = NA <=> (rate[s] = None \/ rate[s] = Some(0))
              /\ (rate[s] # None /\ rate[s] # Some(0)) =>
                    Val(response).shown[s] = << "rate", Val(rate[s]) >>

\* A delivered report of a run with a failed fetch, a fetch that returned 0
\* and a fetch that returned a rate.
C3_Witness ==
    /\ pc = "done"
    /\ delivered # None
    /\ \E s \in Slots : rate[s] = None
    /\ \E s \in Slots : rate[s] = Some(0)
    /\ \E s \in Slots : Truthy(rate[s])

\* C4: in every compare run fetches addressed to different sources are in
\* flight together at some moment: by the time the fetches of a run are
\* over, some fetch was started while a fetch to another source had not
\* returned.
C4_SourcesFetchedConcurrently == pc = "respond" => overlapped

NodeParses(t) == RegexNumeric(Trim(t)) /\ ParseRate(Trim(t)) # None

HasParseableNode(nodes) == \E i \in 1..Len(nodes) : NodeParses(nodes[i])

FirstParseableNode(nodes) ==
    nodes[CHOOSE i \in 1..Len(nodes) :
            NodeParses(nodes[i]) /\ \A j \in 1..(i - 1) : ~NodeParses(nodes[j])]

\* C6: in the ProFinance selector loop a strategy whose matched nodes hold a
\* parseable text ends the fetch with the value of its first parseable
\* node; a strategy without one is skipped: the next selector is tried, and
\* after the last one the fetch returns None.
C6_FirstParseableStrategyWins ==
    [][(pc = "fetch" /\ fpc = "process" /\ Call.source = "Profinance") =>
          IF HasParseableNode(elements)
          THEN fpc' = "close" /\ pending' = Return(ParseRate(Trim(FirstParseableNode(elements))))
          ELSE IF selIdx < Len(selectors)
               THEN fpc' = "wait" /\ selIdx' = selIdx + 1
               ELSE fpc' = "close" /\ pending' = Return(None)]_vars

\* C7: the calculated cross rate of the response is the product of the
\* fetched USD/CNY and CNY/RUB legs when both fetches returned positive
\* values, and is absent (N/A) when either fetch failed.
C7_CrossIsProductOfLegs ==
    response # None =>
        LET a == rate["usd_cny_investing"]
            b == rate["cny_rub_investing"]
        IN  /\ (a # None /\ b # None /\ Val(a) > 0 /\ Val(b) > 0) =>
                  Val(response).cross = << "rate", Val(a) * Val(b) >>
            /\ (a = None \/ b = None) => Val(response).cross = NA

\* A response whose cross rate is the product of two different legs.
C7_Witness ==
    /\ response # None
    /\ rate["usd_cny_investing"] = Some(12)
    /\ rate["cny_rub_investing"] = Some(15)
    /\ Val(response).cross = << "rate", 180 >>

\* Cross and direct USD/RUB are both present in the response (shown as rates).
BothPresent ==
    /\ response # None
    /\ Val(response).cross # NA
    /\ Val(response).shown["usd_rub_investing"] # NA

\* cross - direct in units of 1/(Scale*Scale), from what the response shows
ShownDelta == Val(response).cross[2] - Val(response).shown["usd_rub_investing"][2] * Scale

\* C8: with cross and direct both present, the opportunity is signalled
\* exactly when |delta| is strictly greater than 0.3.
C8_SignalIffAboveThreshold ==
    BothPresent =>
        /\ Verdict # None
        /\ Opportunity # None <=> (ShownDelta * 10 > 3 * Scale * Scale
                                   \/ ShownDelta * 10 < -3 * Scale * Scale)

\* A response whose |delta| is exactly 0.3, with no signal.
C8_Witness ==
    /\ BothPresent
    /\ ShownDelta = 30
    /\ Opportunity = None

\* C9: at delta = 0 the threshold is not exceeded and no direction is
\* reported: neither buy/sell sides nor an up/down indicator.
C9_NoDirectionAtZeroDelta ==
    (BothPresent /\ ShownDelta = 0 /\ Verdict # None) =>
        (Opportunity = None /\ Val(Verdict).emoji \notin {"up", "down"})

\* C10: a verdict is in the response only when the calculated cross rate and
\* the direct USD/RUB reading are both present; when either is missing the
\* response holds no verdict, and the response is built all the same: the
\* missing reading never sends the run to the failure path.
C10_VerdictOnlyWhenBothPresent ==
    PastFetches =>
        /\ response # None
        /\ Verdict # None =>
              /\ rate["usd_rub_investing"] # None
              /\ rate["usd_cny_investing"] # None /\ rate["cny_rub_investing"] # None
              /\ BothPresent
        /\ ~BothPresent => Verdict = None
        /\ pc = "done" => delivered = response

\* A delivered report without verdict: the direct reading is missing while
\* the cross rate is present.
C10_Witness ==
    /\ pc = "done"
    /\ delivered = response
    /\ rate["usd_rub_investing"] = None
    /\ Val(response).cross # NA
    /\ Verdict = None

\* The call at site i has been entered in the run in progress.
Entered(i) ==
    \/ pc = "respond" \/ PastFetches
    \/ pc = "fetch" /\ (i < site \/ (i = site /\ fpc # "call"))

\* C11: in a compare run every fetch is issued exactly once, in the order
\* of the code, whatever the fetches before it returned: the CBR document
\* once the status message is shown, then the five page-scrape calls one by
\* one.  No fetch is issued a second time, and a run that reaches the
\* response has issued all six.
C11_EachFetchIssuedOnce ==
    /\ \A f \in Fetches : issued[f] <= 1
    /\ (pc \in {"fetch", "respond"} \/ PastFetches) => issued["cbr"] = 1
    /\ pc = "fetch" =>
          \A i \in 1..Len(CallSites) : issued[CallSites[i].slot] = IF Entered(i) THEN 1 ELSE 0
    /\ (pc = "respond" \/ PastFetches) => \A f \in Fetches : issued[f] = 1

\* Every fetch of the run failed and every fetch was issued all the same.
C11_Witness ==
    /\ pc = "respond"
    /\ AllSourcesFailed
    /\ \A f \in Fetches : issued[f] = 1

\* The fetch function called on its own has returned for a pair that its
\* urls table does not hold.
UnsupportedReturned == pc = "returned" /\ Call.pair \notin Urls(Call.source)

\* C12: a request for a pair outside the supported set of the source is
\* answered with an outcome of its own, different from the None that a
\* failed network fetch returns, and is decided before Playwright is
\* started and before any browser is launched.
C12_UnsupportedPairIsDistinctOutcome ==
    UnsupportedReturned =>
        /\ rate[Call.slot] # None
        /\ ~playwright
        /\ browser = "none"

\* The codes compare looks up in the CBR dict, with the variable each goes to.
CbrSlot == [USD |-> "usd_rub_cbr", CNY |-> "cny_rub_cbr"]

\* The CBR document was fetched and parsed, and holds no element for code.
LacksCode(code) == cbr # None /\ code \notin DOMAIN Val(cbr)

\* C13: when the CBR document was fetched and parsed but lacks a requested
\* code, the lookup of that code gives None and its CBR line is N/A; the
\* other code, if the document holds it, keeps its value and its line is
\* what format_rate makes of that value; the run goes on: all five
\* page-scrape calls are issued and the response is built, so that the
\* failure path is entered, if at all, from a Telegram call after it.
C13_MissingCodeOnlyBlanksItsOwnLine ==
    \A code \in DOMAIN CbrSlot :
        LacksCode(code) =>
            /\ rate[CbrSlot[code]] = None
            /\ \A other \in (DOMAIN CbrSlot) \cap DOMAIN Val(cbr) :
                  rate[CbrSlot[other]] = Some(Val(cbr)[other])
            /\ (pc = "respond" \/ PastFetches) => \A f \in Fetches : issued[f] = 1
            /\ (PastFetches \/ pc = "escaped") =>
                  /\ response # None
                  /\ Val(response).shown[CbrSlot[code]] = NA
                  /\ \A other \in (DOMAIN CbrSlot) \cap DOMAIN Val(cbr) :
                        Val(response).shown[CbrSlot[other]] = format_rate(Some(Val(cbr)[other]))

\* A delivered report of a run whose CBR document held CNY but not USD: the
\* CBR line of USD/RUB is N/A, that of CNY/RUB carries the rate, and a page
\* source delivered a rate as well.
C13_Witness ==
    /\ pc = "done"
    /\ LacksCode("USD")
    /\ "CNY" \in DOMAIN Val(cbr)
    /\ delivered # None
    /\ Val(delivered).shown["usd_rub_cbr"] = NA
    /\ Val(delivered).shown["cny_rub_cbr"] = << "rate", Val(cbr)["CNY"] >>
    /\ Val(cbr)["CNY"] > 0
    /\ \E s \in PageSlots : Val(delivered).shown[s] # NA

\* The rates a page text of PageTexts can parse to.
PageRates == {Val(ParseRate(Trim(t))) : t \in {u \in PageTexts : ParseRate(Trim(u)) # None}}

MaxPageRate == CHOOSE r \in PageRates : \A q \in PageRates : q <= r

\* The pairs << cross, direct >> of non-zero rates, within the range of the
\* rates the pages deliver, whose difference is -delta.
MirrorInputs(delta) ==
    {m \in {<< direct * Scale - delta, direct >> : direct \in 1..MaxPageRate} :
        /\ m[1] \in 1..(MaxPageRate * MaxPageRate)
        /\ Delta(Some(m[1]), Some(m[2])) = -delta}

\* C14: the analysis is antisymmetric in delta.  For the non-zero delta d
\* of a built response and every pair of rates whose difference is -d, the
\* analysis of that pair takes the same threshold decision as the response
\* and, when the threshold is exceeded, names the two routes with the buy
\* and sell sides exchanged.
C14_AnalysisAntisymmetric ==
    (response # None /\ Verdict # None /\ Val(Verdict).delta # 0) =>
        \A m \in MirrorInputs(Val(Verdict).delta) :
            LET mirrored == Val(Analysis(Some(m[1]), Some(m[2])))
            IN  /\ mirrored.delta = -Val(Verdict).delta
                /\ (mirrored.opportunity = None) <=> (Opportunity = None)
                /\ Opportunity # None =>
                      /\ Val(mirrored.opportunity).buy = Val(Opportunity).sell
                      /\ Val(mirrored.opportunity).sell = Val(Opportunity).buy
                      /\ Val(Opportunity).buy # Val(Opportunity).sell

\* A delivered report with an opportunity at a positive delta, for which
\* rates with the opposite delta exist.
C14_Witness ==
    /\ pc = "done"
    /\ Verdict # None
    /\ Opportunity # None
    /\ Val(Verdict).delta > 0
    /\ MirrorInputs(Val(Verdict).delta) # {}

\* The variables of compare that the fetch f fills.
SlotsOf(f) == IF f = "cbr" THEN {"usd_rub_cbr", "cny_rub_cbr"} ELSE {f}

CleanParses(t) == ParseRate(t) # None

\* The first node, in document order, whose cleaned text parses.
FirstCleanParse(nodes) ==
    nodes[CHOOSE i \in 1..Len(nodes) :
            CleanParses(nodes[i]) /\ \A j \in 1..(i - 1) : ~CleanParses(nodes[j])]

\* C16: within one strategy (the Investing selector, or one selector of the
\* ProFinance list) every matching node is cleaned and parsed, and the
\* strategy ends the fetch with the value of the first node in document
\* order whose cleaned text parses, whatever surrounds the number and
\* whatever nodes come before it.
C16_FirstNodeThatCleansToANumberWins ==
    [][(pc = "fetch" /\ fpc = "process" /\ \E i \in 1..Len(elements) : CleanParses(elements[i])) =>
          /\ fpc' = "close"
          /\ pending' = Return(ParseRate(FirstCleanParse(elements)))]_vars

\* compare has returned or an Exception has left it, after the status
\* message was sent.
LeftAfterStatus == pc \in {"done", "apologized", "escaped"} /\ status_message # "none"

\* C17: an invocation of compare that got past sending the status message
\* ends in one of two ways: the status message is deleted and the report
\* is delivered, or the status message still exists, edited into the
\* apology, and no report is delivered.  It never ends with the status
\* message deleted and no report, and no exception leaves the handler.
C17_EndsDeliveredOrApologized ==
    LeftAfterStatus =>
        \/ pc = "done" /\ status_message = "deleted" /\ delivered # None
        \/ pc = "apologized" /\ status_message = "apology" /\ delivered = None

\* compare has been entered in the handling of the update in progress.
CompareStarted ==
    \/ pc \in {"reply_text", "cbr", "fetch", "respond", "delete", "send", "done", "except",
                "apologized"}
    \/ status_message # "none"
    \/ \E f \in Fetches : issued[f] > 0

\* C18: on a button press the handler answers the callback query first;
\* only for the data 'compare' does it then remove the inline keyboard of
\* the pressed message, and only after that start the compare run, so that
\* no fetch is issued while the message still carries its button; for any
\* other data the keyboard stays and no compare run starts.
C18_KeyboardRemovedBeforeCompare ==
    query # None =>
        /\ ~Val(query).answered => (keyboard = "shown" /\ ~CompareStarted)
        /\ Val(query).data # "compare" => (keyboard = "shown" /\ ~CompareStarted)
        /\ CompareStarted => keyboard = "removed"
        /\ keyboard = "removed" => Val(query).data = "compare"
        /\ (\E f \in Fetches : issued[f] > 0) => keyboard = "removed"

\* A run started from the button has delivered its report: the query was
\* answered and the keyboard of the pressed message is gone.
C18_Witness ==
    /\ query # None
    /\ Val(query).data = "compare"
    /\ Val(query).answered
    /\ keyboard = "removed"
    /\ pc = "done"
    /\ delivered # None

====
